---- MODULE Spec2Model ----
(***************************************************************************)
(* State-machine model of the SLA engine and the plan entitlement engine   *)
(* of backend/server.py (FOXITE helpdesk API).                             *)
(*                                                                         *)
(* Instants are whole seconds.  A UTC instant is the number of seconds     *)
(* since an epoch that falls on a Monday 00:00:00 UTC; a wall-clock value  *)
(* is the same count read in a zone of fixed UTC offset.  Optional values  *)
(* (Python None) are sequences of length 0 or 1.                           *)
(***************************************************************************)
EXTENDS Integers, Sequences, FiniteSets, TLC

VARIABLES
    cal,            \* one call of calculate_business_hours_due_date
    org,            \* the organization document (plan, status)
    store,          \* documents per counted collection of the organization
    sla_policies,   \* db.sla_policies of the organization
    procs,          \* the requests in progress
    requests,       \* requests received so far
    tickets,        \* db.tickets of the organization
    now,            \* the clock, datetime.now(timezone.utc)
    business_hours, \* db.business_hours of the organization
    checked,        \* the ticket the last operation evaluated for breach
    staff_users,    \* db.staff_users of the organization: status per user
    returned,       \* the response of the last read (a ticket, the plans)
    sessions,       \* db.sessions of one agent of the organization
    org_tickets     \* db.tickets of every organization: id, owner and number

slaVars == <<tickets, now, business_hours, checked, returned>>
guardVars == <<cal, org, store, sla_policies, procs, requests>>
seatVars == <<staff_users>>
deskVars == <<sessions, org_tickets>>
vars == <<cal, org, store, sla_policies, procs, requests,
          tickets, now, business_hours, checked, staff_users, returned,
          sessions, org_tickets>>

None == <<>>
Some(x) == <<x>>
IsNone(o) == o = <<>>
Get(o) == o[1]
Max2(x, y) == IF x >= y THEN x ELSE y
Min2(x, y) == IF x <= y THEN x ELSE y

\* the response of a read: the handler, the id asked for and the document
\* returned
Response(op, id, body) == [op |-> op, id |-> id, body |-> body]

\* current_user['organization_id'] of the requests of the model, and the id
\* of another tenant whose documents share the collections
OrgId == "org-1"
OtherOrgId == "org-2"

(***************************************************************************)
(* Bounds of the model.                                                    *)
(***************************************************************************)
\* Last simulated day a datetime can hold (stands for datetime.max): adding
\* a day beyond it raises OverflowError.
MaxDay == 3700
\* Requests that arrive in one run.
MaxRequests == 2
\* Tickets created in one run.
MaxTickets == 1
\* Clock ticks in one run.
MaxTicks == 3
\* Staff user documents an organization can come to hold.
MaxUsers == 4
\* Largest seat count an administrator asks for.
MaxSeats == 4
MaxSessions == 3

(***************************************************************************)
(* Calendar arithmetic (Python datetime / timedelta).                      *)
(***************************************************************************)
SecondsPerMinute == 60
MinutesPerDay == 24 * 60
SecondsPerDay == MinutesPerDay * SecondsPerMinute

\* The search horizon the specification asks for (simulated days).
SearchHorizon == 10 * 365

DayOf(wall) == wall \div SecondsPerDay
\* current.time() as seconds since local midnight
TimeOfDay(wall) == wall % SecondsPerDay
\* current.isoweekday(): Monday = 1 .. Sunday = 7 (day 0 is a Monday)
isoweekday(wall) == (DayOf(wall) % 7) + 1
\* dt_time(hour, minute) as seconds since midnight
dt_time(hm) == (hm[1] * 60 + hm[2]) * SecondsPerMinute
\* current.replace(hour=h, minute=m, second=0, microsecond=0)
ReplaceTime(wall, hm) == DayOf(wall) * SecondsPerDay + dt_time(hm)

\* pytz.timezone(tz_str) with the fallback to UTC of the except branch;
\* the offset (minutes east of UTC) attached to the converted datetime.
UtcOffsetMinutes(tz_str) ==
    CASE tz_str = "UTC" -> 0
      [] tz_str = "Etc/GMT-2" -> 120
      [] OTHER -> 0

\* start_time.astimezone(tz)
astimezone_KeepsWallClock(utc, tz_str) == utc
astimezone(utc, tz_str) == utc + UtcOffsetMinutes(tz_str) * SecondsPerMinute
\* current.astimezone(pytz.UTC)
ToUTC(wall, tz_str) == wall - UtcOffsetMinutes(tz_str) * SecondsPerMinute

(***************************************************************************)
(* calculate_business_hours_due_date: one iteration of the while loop.     *)
(* The result is the new (current, remaining) pair, or an OverflowError    *)
(* when timedelta arithmetic leaves the datetime range.                    *)
(***************************************************************************)
NextDayStart(wall, hours) ==
    IF DayOf(wall) + 1 > MaxDay
    THEN [error |-> "OverflowError", current |-> wall]
    ELSE [error |-> "", current |-> ReplaceTime(wall + SecondsPerDay, hours.start_time)]

\* the loop body that, when the budget exceeds the rest of the working day,
\* goes back to the opening of the same day
LoopBody_SameDay(current, remaining_minutes, hours) ==
    LET work_start == dt_time(hours.start_time)
        work_end == dt_time(hours.end_time)
        work_end_minutes == hours.end_time[1] * 60 + hours.end_time[2]
        nd(w) == NextDayStart(w, hours)
    IN  IF isoweekday(current) \in hours.work_days
        THEN LET c1 == IF TimeOfDay(current) < work_start
                       THEN ReplaceTime(current, hours.start_time)
                       ELSE current
                 current_minutes == TimeOfDay(c1) \div SecondsPerMinute
                 minutes_until_end == work_end_minutes - current_minutes
             IN  IF TimeOfDay(c1) >= work_end
                 THEN [error |-> nd(c1).error, current |-> nd(c1).current,
                       remaining |-> remaining_minutes]
                 ELSE IF remaining_minutes <= minutes_until_end
                      THEN [error |-> "",
                            current |-> c1 + remaining_minutes * SecondsPerMinute,
                            remaining |-> 0]
                      ELSE [error |-> "",
                            current |-> ReplaceTime(c1, hours.start_time),
                            remaining |-> remaining_minutes - minutes_until_end]
        ELSE [error |-> nd(current).error, current |-> nd(current).current,
              remaining |-> remaining_minutes]

LoopBody(current, remaining_minutes, hours) ==
    LET work_start == dt_time(hours.start_time)
        work_end == dt_time(hours.end_time)
        work_end_minutes == hours.end_time[1] * 60 + hours.end_time[2]
        nd(w) == NextDayStart(w, hours)
    IN  IF isoweekday(current) \in hours.work_days
        THEN LET c1 == IF TimeOfDay(current) < work_start
                       THEN ReplaceTime(current, hours.start_time)
                       ELSE current
                 current_minutes == TimeOfDay(c1) \div SecondsPerMinute
                 minutes_until_end == work_end_minutes - current_minutes
             IN  IF TimeOfDay(c1) >= work_end
                 THEN [error |-> nd(c1).error, current |-> nd(c1).current,
                       remaining |-> remaining_minutes]
                 ELSE IF remaining_minutes <= minutes_until_end
                      THEN [error |-> "",
                            current |-> c1 + remaining_minutes * SecondsPerMinute,
                            remaining |-> 0]
                      ELSE [error |-> nd(c1).error, current |-> nd(c1).current,
                            remaining |-> remaining_minutes - minutes_until_end]
        ELSE [error |-> nd(current).error, current |-> nd(current).current,
              remaining |-> remaining_minutes]

\* The whole function, for callers (apply_sla_to_ticket): the loop is run to
\* its end; the result is the UTC due instant, or None on OverflowError.
RECURSIVE RunLoop(_, _, _)
RunLoop(current, remaining_minutes, hours) ==
    IF remaining_minutes > 0
    THEN LET r == LoopBody(current, remaining_minutes, hours)
         IN  IF r.error # "" THEN None
             ELSE RunLoop(r.current, r.remaining, hours)
    ELSE Some(ToUTC(current, hours.timezone))

calculate_business_hours_due_date(start_time, minutes_to_add, hours) ==
    IF IsNone(hours)
    THEN Some(start_time + minutes_to_add * SecondsPerMinute)
    ELSE RunLoop(astimezone(start_time, Get(hours).timezone),
                 minutes_to_add, Get(hours))

\* the state of one call of calculate_business_hours_due_date
CalCall(start, minutes, hours) ==
    [start |-> start, minutes |-> minutes, hours |-> hours,
     pc |-> "call", current |-> 0, remaining |-> 0, iters |-> 0,
     result |-> None, error |-> ""]

(***************************************************************************)
(* PLAN_FEATURES: the plan catalog.  Feature values True / False are the   *)
(* strings "True" / "False"; the other strings are tier strings.           *)
(***************************************************************************)
Plan_CORE ==
    [name |-> "CORE", display_name |-> "Core",
     price_per_seat |-> 18, min_seats |-> 3,
     max_slas |-> Some(1),
     limits |->
         ("staff_users" :> None @@
          "tickets" :> None @@
          "end_users" :> None @@
          "devices" :> Some(25) @@
          "licenses" :> Some(0) @@
          "saved_views" :> Some(5) @@
          "automations" :> Some(0) @@
          "ai_requests_monthly" :> Some(0)),
     features |->
         ("tickets" :> "True" @@
          "end_users" :> "True" @@
          "tasks" :> "True" @@
          "devices_inventory" :> "True" @@
          "licenses_inventory" :> "False" @@
          "knowledge_base" :> "True" @@
          "calendar" :> "True" @@
          "email_notifications" :> "True" @@
          "ai_features" :> "False" @@
          "ai_ticket_summary" :> "False" @@
          "ai_response_suggestions" :> "False" @@
          "sla_management" :> "basic" @@
          "reports" :> "basic" @@
          "api_access" :> "False" @@
          "end_user_portal_customization" :> "False" @@
          "workflows" :> "False" @@
          "automation_rules" :> "False" @@
          "saved_filters" :> "False" @@
          "custom_dashboards" :> "False" @@
          "audit_logs" :> "False" @@
          "alerts_escalations" :> "basic" @@
          "time_tracking" :> "True" @@
          "asset_linking" :> "True")]

Plan_PLUS ==
    [name |-> "PLUS", display_name |-> "Plus",
     price_per_seat |-> 55, min_seats |-> 3,
     max_slas |-> Some(3),
     limits |->
         ("staff_users" :> None @@
          "tickets" :> None @@
          "end_users" :> None @@
          "devices" :> Some(100) @@
          "licenses" :> Some(50) @@
          "saved_views" :> Some(25) @@
          "automations" :> Some(10) @@
          "ai_requests_monthly" :> Some(100)),
     features |->
         ("tickets" :> "True" @@
          "end_users" :> "True" @@
          "tasks" :> "True" @@
          "devices_inventory" :> "True" @@
          "licenses_inventory" :> "True" @@
          "knowledge_base" :> "True" @@
          "calendar" :> "True" @@
          "email_notifications" :> "True" @@
          "ai_features" :> "limited" @@
          "ai_ticket_summary" :> "True" @@
          "ai_response_suggestions" :> "False" @@
          "sla_management" :> "advanced" @@
          "reports" :> "full" @@
          "api_access" :> "read_only" @@
          "end_user_portal_customization" :> "False" @@
          "workflows" :> "True" @@
          "automation_rules" :> "True" @@
          "saved_filters" :> "True" @@
          "custom_dashboards" :> "False" @@
          "audit_logs" :> "False" @@
          "alerts_escalations" :> "advanced" @@
          "time_tracking" :> "True" @@
          "asset_linking" :> "True")]

Plan_PRIME ==
    [name |-> "PRIME", display_name |-> "Prime",
     price_per_seat |-> 100, min_seats |-> 1,
     max_slas |-> None,
     limits |->
         ("staff_users" :> None @@
          "tickets" :> None @@
          "end_users" :> None @@
          "devices" :> None @@
          "licenses" :> None @@
          "saved_views" :> None @@
          "automations" :> None @@
          "ai_requests_monthly" :> None),
     features |->
         ("tickets" :> "True" @@
          "end_users" :> "True" @@
          "tasks" :> "True" @@
          "devices_inventory" :> "True" @@
          "licenses_inventory" :> "True" @@
          "knowledge_base" :> "True" @@
          "calendar" :> "True" @@
          "email_notifications" :> "True" @@
          "ai_features" :> "unlimited" @@
          "ai_ticket_summary" :> "True" @@
          "ai_response_suggestions" :> "True" @@
          "sla_management" :> "advanced" @@
          "reports" :> "full" @@
          "api_access" :> "full" @@
          "end_user_portal_customization" :> "True" @@
          "workflows" :> "True" @@
          "automation_rules" :> "True" @@
          "saved_filters" :> "True" @@
          "custom_dashboards" :> "True" @@
          "audit_logs" :> "True" @@
          "alerts_escalations" :> "advanced" @@
          "time_tracking" :> "True" @@
          "asset_linking" :> "True")]

PlanNames == { "CORE", "PLUS", "PRIME" }
PLAN_FEATURES ==
    [ p \in PlanNames |->
        CASE p = "CORE" -> Plan_CORE
          [] p = "PLUS" -> Plan_PLUS
          [] OTHER -> Plan_PRIME ]

Resources == DOMAIN Plan_CORE.limits
Features == DOMAIN Plan_CORE.features

\* a lookup that falls back to the least restrictive tier
PlanGet_FallsBackToPrime(plan_id) ==
    IF plan_id \in DOMAIN PLAN_FEATURES THEN PLAN_FEATURES[plan_id]
    ELSE PLAN_FEATURES["PRIME"]

\* PLAN_FEATURES.get(plan_id, PLAN_FEATURES["CORE"])
PlanGet(plan_id) ==
    IF plan_id \in DOMAIN PLAN_FEATURES THEN PLAN_FEATURES[plan_id]
    ELSE PLAN_FEATURES["CORE"]

\* get_plan_limits, given the organization document read from the store
get_plan_limits(o) == PlanGet(o.plan)

\* dict.get(key, default) on a catalog table
DictGet(d, key, default) == IF key \in DOMAIN d THEN d[key] ELSE default

\* can_use_feature that grants access for the unrestricted levels only
can_use_feature_FullLevelsOnly(plan, feature_name) ==
    LET feature_value == DictGet(plan.features, feature_name, "False")
    IN  IF feature_value \in { "True", "False" }
        THEN feature_value = "True"
        ELSE feature_value \in { "basic", "advanced", "unlimited", "full" }

\* can_use_feature, given the plan it read
can_use_feature(plan, feature_name) ==
    LET feature_value == DictGet(plan.features, feature_name, "False")
    IN  IF feature_value \in { "True", "False" }
        THEN feature_value = "True"
        ELSE feature_value \in { "basic", "advanced", "unlimited", "limited",
                                 "read_only", "full" }

\* get_current_resource_count: the resources that have a collection
collection_map ==
    { "devices", "licenses", "saved_views", "staff_users", "automations" }

get_current_resource_count(st, resource) ==
    IF resource \in collection_map THEN st[resource] ELSE 0

\* check_resource_limit with the comparison current <= limit
check_resource_limit_Inclusive(plan, resource, current) ==
    LET limit == DictGet(plan.limits, resource, None)
    IN  [can_add |-> IsNone(limit) \/ current <= Get(limit),
         current |-> current,
         limit |-> limit,
         plan |-> plan.name,
         unlimited |-> IsNone(limit)]

\* check_resource_limit, given the plan it read and the count it read
check_resource_limit(plan, resource, current) ==
    LET limit == DictGet(plan.limits, resource, None)
    IN  [can_add |-> IsNone(limit) \/ current < Get(limit),
         current |-> current,
         limit |-> limit,
         plan |-> plan.name,
         unlimited |-> IsNone(limit)]

\* check_sla_limit, given the plan it read and the count it read
check_sla_limit(plan, current_slas) ==
    [max_slas |-> plan.max_slas,
     current_slas |-> current_slas,
     can_add_sla |-> IsNone(plan.max_slas) \/ current_slas < Get(plan.max_slas)]

\* get_minimum_plan_for_feature
get_minimum_plan_for_feature(feature) ==
    LET ok(p) == DictGet(PLAN_FEATURES[p].features, feature, "False") # "False"
    IN  IF ok("CORE") THEN "CORE"
        ELSE IF ok("PLUS") THEN "PLUS"
        ELSE IF ok("PRIME") THEN "PRIME"
        ELSE "PRIME"

(***************************************************************************)
(* The errors the handlers raise (HTTPException details).                  *)
(***************************************************************************)
ErrorRecord(kind, status) ==
    [error |-> kind, status_code |-> status, resource |-> "", limit |-> None,
     plan |-> "", feature |-> "", required_plan |-> "", detail |-> ""]

PlanLimitError(resource, limit, plan) ==
    [ErrorRecord("plan_limit_exceeded", 403) EXCEPT
        !.resource = resource, !.limit = limit, !.plan = plan]

FeatureNotAvailableError(feature, plan, required_plan) ==
    [ErrorRecord("feature_not_available", 403) EXCEPT
        !.feature = feature, !.plan = plan, !.required_plan = required_plan]

OrganizationSuspendedError == ErrorRecord("organization_suspended", 403)

HTTPException(status, detail) ==
    [ErrorRecord("http_exception", status) EXCEPT !.detail = detail]

\* enforce_resource_limit that reports the current count as the limit
enforce_resource_limit_ReportsCount(resource, result) ==
    IF ~result.can_add
    THEN Some(PlanLimitError(resource, Some(result.current), result.plan))
    ELSE None

\* enforce_resource_limit, given the result of check_resource_limit:
\* the error raised, or None
enforce_resource_limit(resource, result) ==
    IF ~result.can_add
    THEN Some(PlanLimitError(resource, result.limit, result.plan))
    ELSE None

\* enforce_feature_access, given the plan name it read first and the plan
\* can_use_feature read: the error raised, or None
enforce_feature_access(plan_name, plan, feature, required_plan) ==
    IF ~can_use_feature(plan, feature)
    THEN Some(FeatureNotAvailableError(feature, plan_name, required_plan))
    ELSE None

\* enforce_not_suspended, given the organization document read
enforce_not_suspended(o) ==
    IF o.status = "suspended" THEN Some(OrganizationSuspendedError) ELSE None

(***************************************************************************)
(* Request handlers.  A request runs as a sequence of store operations     *)
(* (the awaits of the handler); between two of them other requests run.    *)
(***************************************************************************)
Procs == 1 .. 2

Ops == { "create_device", "create_license", "create_saved_view",
         "create_sla_policy", "update_sla_policy", "create_ticket",
         "enforce_feature_access", "enforce_resource_limit" }

Flow(op) ==
    CASE op = "create_device" ->
           << "limit_plan", "limit_count", "find_company", "insert" >>
      [] op = "create_license" ->
           << "feature_plan", "feature_check", "limit_plan", "limit_count",
              "find_company", "insert" >>
      [] op = "create_saved_view" ->
           << "feature_plan", "feature_check", "limit_plan", "limit_count",
              "insert" >>
      [] op = "create_sla_policy" ->
           << "not_suspended", "sla_limit_plan", "sla_limit_count",
              "existing", "insert" >>
      [] op = "update_sla_policy" ->
           << "find_policy", "update_policy" >>
      [] op = "create_ticket" ->
           << "ticket_not_suspended", "next_ticket_number", "insert_ticket",
              "apply_sla" >>
      [] op = "enforce_resource_limit" ->
           << "limit_plan", "limit_count" >>
      [] OTHER ->
           << "feature_plan", "feature_check" >>

NoArgs ==
    [role |-> "admin", company_ok |-> TRUE, entity_ok |-> TRUE,
     priority |-> "", response_time_minutes |-> 0,
     resolution_time_minutes |-> 0, feature |-> "", required_plan |-> "PLUS",
     resource |-> "", policy_id |-> 0, update_data |-> << >>,
     organization_id |-> OrgId]

IdleProc ==
    [pc |-> "idle", op |-> "", ip |-> 0, args |-> NoArgs, plan_name |-> "",
     plan |-> "", result |-> None, error |-> None, inserted |-> FALSE]

Label(pr) == IF pr.pc = "run" THEN Flow(pr.op)[pr.ip] ELSE pr.pc

\* the handler goes on to its next store operation, or returns
Advance(pr) ==
    IF pr.ip = Len(Flow(pr.op))
    THEN [pr EXCEPT !.pc = "done"]
    ELSE [pr EXCEPT !.ip = pr.ip + 1]

Raise(pr, e) == [pr EXCEPT !.pc = "failed", !.error = Some(e)]

Priorities == { "low", "medium", "high", "urgent" }

RequestArgs(op) ==
    CASE op = "create_device" \/ op = "create_license" ->
           { [NoArgs EXCEPT !.company_ok = c] : c \in BOOLEAN }
      [] op = "create_saved_view" ->
           { [NoArgs EXCEPT !.entity_ok = c] : c \in BOOLEAN }
      [] op = "create_sla_policy" ->
           { [NoArgs EXCEPT !.role = r, !.priority = pri,
                            !.response_time_minutes = 60,
                            !.resolution_time_minutes = 480] :
             r \in { "admin", "technician" }, pri \in Priorities }
      [] op = "enforce_resource_limit" ->
           { [NoArgs EXCEPT !.resource = r] : r \in Resources \cup { "widgets" } }
      [] OTHER ->
           { [NoArgs EXCEPT !.feature = f] : f \in Features }

\* a request arrives and is taken by the first free worker
Begin(p, op, args) ==
    /\ procs[p].pc = "idle"
    /\ \A q \in Procs : q < p => procs[q].pc # "idle"
    /\ requests < MaxRequests
    /\ procs' = [procs EXCEPT ![p] =
                    [IdleProc EXCEPT !.pc = "run", !.op = op, !.ip = 1,
                                      !.args = args]]
    /\ requests' = requests + 1
    /\ UNCHANGED <<deskVars, seatVars, slaVars, cal, org, store, sla_policies>>

\* enforce_not_suspended (create_sla_policy, line 2917), then the role check
NotSuspended(p) ==
    LET pr == procs[p]
        e == enforce_not_suspended(org)
    IN  /\ Label(pr) = "not_suspended"
        /\ procs' = [procs EXCEPT ![p] =
              IF ~IsNone(e) THEN Raise(pr, Get(e))
              ELSE IF pr.args.role # "admin"
                   THEN Raise(pr, HTTPException(403, "Only admins can manage SLA policies"))
                   ELSE Advance(pr)]
        /\ UNCHANGED <<deskVars, seatVars, slaVars, cal, org, store, sla_policies, requests>>

\* enforce_feature_access: get_plan_limits, plan_name (lines 432-433)
FeaturePlan(p) ==
    LET pr == procs[p]
    IN  /\ Label(pr) = "feature_plan"
        /\ procs' = [procs EXCEPT ![p] =
              Advance([pr EXCEPT !.plan_name = get_plan_limits(org).name])]
        /\ UNCHANGED <<deskVars, seatVars, slaVars, cal, org, store, sla_policies, requests>>

\* the resource a request counts, the feature it gates on
ResourceOf(pr) ==
    CASE pr.op = "create_device" -> "devices"
      [] pr.op = "create_license" -> "licenses"
      [] pr.op = "create_saved_view" -> "saved_views"
      [] OTHER -> pr.args.resource

FeatureOf(pr) ==
    CASE pr.op = "create_license" -> "licenses_inventory"
      [] pr.op = "create_saved_view" -> "saved_filters"
      [] OTHER -> pr.args.feature

\* enforce_feature_access: can_use_feature reads the plan again (line 435)
FeatureCheck(p) ==
    LET pr == procs[p]
        e == enforce_feature_access(pr.plan_name, get_plan_limits(org),
                                    FeatureOf(pr), pr.args.required_plan)
    IN  /\ Label(pr) = "feature_check"
        /\ procs' = [procs EXCEPT ![p] =
              IF ~IsNone(e) THEN Raise(pr, Get(e))
              ELSE Advance([pr EXCEPT !.plan = get_plan_limits(org).name])]
        /\ UNCHANGED <<deskVars, seatVars, slaVars, cal, org, store, sla_policies, requests>>

\* check_resource_limit: get_plan_limits (line 397)
LimitPlan(p) ==
    LET pr == procs[p]
    IN  /\ Label(pr) = "limit_plan"
        /\ procs' = [procs EXCEPT ![p] =
              Advance([pr EXCEPT !.plan = get_plan_limits(org).name])]
        /\ UNCHANGED <<deskVars, seatVars, slaVars, cal, org, store, sla_policies, requests>>

\* check_resource_limit: the count and the decision (lines 400-411), then
\* enforce_resource_limit (lines 420-425) and the handler's own validation
LimitCount(p) ==
    LET pr == procs[p]
        resource == ResourceOf(pr)
        result == check_resource_limit(PLAN_FEATURES[pr.plan], resource,
                      get_current_resource_count(store, resource))
        e == enforce_resource_limit(resource, result)
        pr1 == [pr EXCEPT !.result = Some(result)]
    IN  /\ Label(pr) = "limit_count"
        /\ procs' = [procs EXCEPT ![p] =
              IF ~IsNone(e) THEN Raise(pr1, Get(e))
              ELSE IF pr.op = "create_saved_view" /\ ~pr.args.entity_ok
                   THEN Raise(pr1, HTTPException(400, "Invalid entity type"))
                   ELSE Advance(pr1)]
        /\ UNCHANGED <<deskVars, seatVars, slaVars, cal, org, store, sla_policies, requests>>

\* the client company is looked up (create_device lines 3436-3442)
FindCompany(p) ==
    LET pr == procs[p]
    IN  /\ Label(pr) = "find_company"
        /\ procs' = [procs EXCEPT ![p] =
              IF ~pr.args.company_ok
              THEN Raise(pr, HTTPException(404, "Client company not found"))
              ELSE Advance(pr)]
        /\ UNCHANGED <<deskVars, seatVars, slaVars, cal, org, store, sla_policies, requests>>

\* check_sla_limit: the organization is read (lines 318-324)
SlaLimitPlan(p) ==
    LET pr == procs[p]
    IN  /\ Label(pr) = "sla_limit_plan"
        /\ procs' = [procs EXCEPT ![p] =
              Advance([pr EXCEPT !.plan = get_plan_limits(org).name])]
        /\ UNCHANGED <<deskVars, seatVars, slaVars, cal, org, store, sla_policies, requests>>

\* check_sla_limit: the count and the decision (lines 326-332)
SlaLimitCount(p) ==
    LET pr == procs[p]
        sla_info == check_sla_limit(PLAN_FEATURES[pr.plan],
                        Cardinality({ q \in sla_policies :
                                        q.organization_id = OrgId }))
    IN  /\ Label(pr) = "sla_limit_count"
        /\ procs' = [procs EXCEPT ![p] =
              IF ~sla_info.can_add_sla
              THEN [pr EXCEPT !.pc = "sla_limit_denied"]
              ELSE Advance(pr)]
        /\ UNCHANGED <<deskVars, seatVars, slaVars, cal, org, store, sla_policies, requests>>

\* create_sla_policy, lines 2926-2931: the plan is read for the message
SlaLimitDenied(p) ==
    LET pr == procs[p]
    IN  /\ pr.pc = "sla_limit_denied"
        /\ procs' = [procs EXCEPT ![p] =
              Raise([pr EXCEPT !.plan_name = org.plan],
                    HTTPException(403, "SLA limit reached"))]
        /\ UNCHANGED <<deskVars, seatVars, slaVars, cal, org, store, sla_policies, requests>>

\* create_sla_policy, lines 2934-2940: one policy per priority
Existing(p) ==
    LET pr == procs[p]
    IN  /\ Label(pr) = "existing"
        /\ procs' = [procs EXCEPT ![p] =
              IF \E q \in sla_policies : /\ q.organization_id = OrgId
                                          /\ q.priority = pr.args.priority
              THEN Raise(pr, HTTPException(400, "SLA policy already exists"))
              ELSE Advance(pr)]
        /\ UNCHANGED <<deskVars, seatVars, slaVars, cal, org, store, sla_policies, requests>>

\* insert_one of the handler's collection
Insert(p) ==
    LET pr == procs[p]
    IN  /\ Label(pr) = "insert"
        /\ IF pr.op = "create_sla_policy"
           THEN /\ sla_policies' = sla_policies \cup
                      { [id |-> Cardinality(sla_policies) + 1,
                         organization_id |-> OrgId,
                         priority |-> pr.args.priority,
                         response_time_minutes |-> pr.args.response_time_minutes,
                         resolution_time_minutes |-> pr.args.resolution_time_minutes] }
                /\ store' = store
           ELSE /\ store' = [store EXCEPT ![ResourceOf(pr)] = @ + 1]
                /\ sla_policies' = sla_policies
        /\ procs' = [procs EXCEPT ![p] = Advance([pr EXCEPT !.inserted = TRUE])]
        /\ UNCHANGED <<deskVars, seatVars, slaVars, cal, org, requests>>

\* the response is sent
Return(p) ==
    /\ procs[p].pc \in { "done", "failed" }
    /\ procs' = [procs EXCEPT ![p] = IdleProc]
    /\ UNCHANGED <<deskVars, seatVars, slaVars, cal, org, store, sla_policies, requests>>

PlanIds == PlanNames \cup { "SCALE" }
OrgStatuses == { "active", "suspended", "trial" }

\* the clock starts on the Friday of the second week at 16:59:00 UTC and
\* advances in steps of a minute
ClockStart == 11 * SecondsPerDay + (16 * 60 + 59) * SecondsPerMinute
TickSeconds == SecondsPerMinute
TicketIds == 1 .. MaxTickets

\* the staff users of the organization: absent (no document), or the status
\* of the document
UserIds == 1 .. MaxUsers
StaffOf(n) == [u \in UserIds |-> IF u <= n THEN "active" ELSE "absent"]
\* three active staff users, as counted in the initial stores
SeatIdle == staff_users = StaffOf(Min2(3, MaxUsers))

\* no session recorded and no ticket numbered
DeskIdle == sessions = {} /\ org_tickets = {}

\* the ticket side at rest
SlaIdle ==
    /\ tickets = [i \in TicketIds |-> None]
    /\ now = ClockStart
    /\ business_hours = None
    /\ checked = None
    /\ returned = None

(***************************************************************************)
(* Initial stores: counts at and next to the limits of the catalog.        *)
(***************************************************************************)
SlaPolicy(id, organization_id, priority, response, resolution) ==
    [id |-> id, organization_id |-> organization_id, priority |-> priority,
     response_time_minutes |-> response, resolution_time_minutes |-> resolution]

Policy(id, pri) ==
    [id |-> id, organization_id |-> OrgId, priority |-> pri,
     response_time_minutes |-> 60, resolution_time_minutes |-> 480]

StoreScenarios ==
    { << [devices |-> 0, licenses |-> 0, saved_views |-> 0,
         staff_users |-> 3, automations |-> 0], {} >>,
      << [devices |-> 24, licenses |-> 0, saved_views |-> 4,
         staff_users |-> 3, automations |-> 0], {} >>,
      << [devices |-> 25, licenses |-> 0, saved_views |-> 5,
         staff_users |-> 3, automations |-> 0],
         { Policy(1, "low") } >>,
      << [devices |-> 99, licenses |-> 49, saved_views |-> 24,
         staff_users |-> 3, automations |-> 0],
         { Policy(1, "low"), Policy(2, "medium") } >>,
      << [devices |-> 100, licenses |-> 50, saved_views |-> 25,
         staff_users |-> 3, automations |-> 0],
         { Policy(1, "low"), Policy(2, "medium"), Policy(3, "high") } >> }

CalIdle == CalCall(0, 0, None)

InitCreate ==
    /\ cal = CalIdle
    /\ \E plan \in PlanIds, status \in OrgStatuses :
          org = [plan |-> plan, status |-> status]
    /\ \E sc \in StoreScenarios : store = sc[1] /\ sla_policies = sc[2]
    /\ procs = [p \in Procs |-> IdleProc]
    /\ requests = 0
    /\ DeskIdle
    /\ SlaIdle
    /\ SeatIdle

Step(p) ==
    \/ NotSuspended(p)
    \/ FeaturePlan(p)
    \/ FeatureCheck(p)
    \/ LimitPlan(p)
    \/ LimitCount(p)
    \/ FindCompany(p)
    \/ SlaLimitPlan(p)
    \/ SlaLimitCount(p)
    \/ SlaLimitDenied(p)
    \/ Existing(p)
    \/ Insert(p)
    \/ Return(p)

HandlerOps ==
    Ops \ { "enforce_feature_access", "enforce_resource_limit",
            "update_sla_policy", "create_ticket" }

\* the handlers of a fixed organization
NextCreate ==
    \/ \E p \in Procs, op \in HandlerOps : \E a \in RequestArgs(op) : Begin(p, op, a)
    \/ \E p \in Procs : Step(p)

SpecCreate == InitCreate /\ [][NextCreate]_vars

\* the entitlement functions applied by one caller to every feature and
\* every resource of the catalog
\* PLAN_FEATURES.items(): the catalog in its order of definition
PlanItems == << "CORE", "PLUS", "PRIME" >>

\* get_available_plans: one entry per plan of the catalog (the discount and
\* the currency left out)
get_available_plans ==
    [i \in DOMAIN PlanItems |->
        LET plan_id == PlanItems[i]
            plan == PLAN_FEATURES[plan_id]
        IN  [id |-> plan_id,
             name |-> DictGet(plan, "display_name", plan_id),
             price_per_seat |-> plan.price_per_seat,
             min_seats |-> DictGet(plan, "min_seats", 1),
             max_slas |-> plan.max_slas,
             limits |-> plan.limits,
             features |-> plan.features]]

\* GET /api/plans (public)
GetAvailablePlans ==
    /\ IsNone(returned)
    /\ returned' = Some(Response("get_available_plans", 0, get_available_plans))
    /\ UNCHANGED <<deskVars, tickets, now, business_hours, checked, guardVars, seatVars>>

NextEntitlement ==
    \/ GetAvailablePlans
    \/ \E op \in { "enforce_feature_access", "enforce_resource_limit" } :
          \E a \in RequestArgs(op) : Begin(1, op, a)
    \/ FeaturePlan(1)
    \/ FeatureCheck(1)
    \/ LimitPlan(1)
    \/ LimitCount(1)
    \/ Return(1)

SpecEntitlement == InitCreate /\ [][NextEntitlement]_vars

(***************************************************************************)
(* SLA policy administration: create_sla_policy and update_sla_policy.     *)
(***************************************************************************)
\* update_sla_policy, lines 2998-3008: the role check, then the policy is
\* looked up by id within the organization
FindPolicy(p) ==
    LET pr == procs[p]
    IN  /\ Label(pr) = "find_policy"
        /\ procs' = [procs EXCEPT ![p] =
              IF pr.args.role # "admin"
              THEN Raise(pr, HTTPException(403, "Only admins can update SLA policies"))
              ELSE IF ~\E q \in sla_policies : /\ q.id = pr.args.policy_id
                                                /\ q.organization_id = OrgId
                   THEN Raise(pr, HTTPException(404, "SLA policy not found"))
                   ELSE Advance(pr)]
        /\ UNCHANGED <<deskVars, seatVars, slaVars, cal, org, store, sla_policies, requests>>

\* SLAPolicyUpdate.model_dump() without the None values, $set on a policy
SetPolicy(q, update_data) ==
    [q EXCEPT
        !.response_time_minutes =
            IF IsNone(update_data.response_time_minutes) THEN @
            ELSE Get(update_data.response_time_minutes),
        !.resolution_time_minutes =
            IF IsNone(update_data.resolution_time_minutes) THEN @
            ELSE Get(update_data.resolution_time_minutes)]

\* update_sla_policy, lines 3010-3014: update_one({"id": policy_id}, $set)
UpdatePolicy(p) ==
    LET pr == procs[p]
    IN  /\ Label(pr) = "update_policy"
        /\ sla_policies' =
              { IF q.id = pr.args.policy_id
                THEN SetPolicy(q, pr.args.update_data) ELSE q :
                q \in sla_policies }
        /\ procs' = [procs EXCEPT ![p] = Advance(pr)]
        /\ UNCHANGED <<deskVars, seatVars, slaVars, cal, org, store, requests>>

\* SLAPolicyCreate bodies: priorities of the documented four and another
\* string, durations in and out of order, zero and negative
PolicyDurations == { <<60, 480>>, <<60, 30>>, <<0, 0>>, <<-5, 10>> }
SLAPolicyCreate ==
    { [NoArgs EXCEPT !.priority = pri, !.response_time_minutes = d[1],
                     !.resolution_time_minutes = d[2]] :
        pri \in { "low", "critical" }, d \in PolicyDurations }
    \cup { [NoArgs EXCEPT !.role = "technician", !.priority = "high",
                          !.response_time_minutes = 60,
                          !.resolution_time_minutes = 480] }

\* SLAPolicyUpdate bodies (name left out), with the policy id of the path
SLAPolicyUpdate ==
    { [NoArgs EXCEPT !.policy_id = id,
                     !.update_data = [response_time_minutes |-> r,
                                      resolution_time_minutes |-> s]] :
        id \in { 1, 2 },
        r \in { None, Some(0), Some(600) }, s \in { None, Some(30) } }
    \cup { [NoArgs EXCEPT !.role = "technician", !.policy_id = 1,
                          !.update_data = [response_time_minutes |-> Some(30),
                                           resolution_time_minutes |-> None]] }

PolicyRequests(op) ==
    IF op = "create_sla_policy" THEN SLAPolicyCreate ELSE SLAPolicyUpdate

\* an active organization on CORE or PLUS without a policy or with one, next
\* to a policy of another tenant
InitPolicy ==
    /\ cal = CalIdle
    /\ \E plan \in { "CORE", "PLUS" } :
          org = [plan |-> plan, status |-> "active"]
    /\ store = [devices |-> 0, licenses |-> 0, saved_views |-> 0,
                staff_users |-> 3, automations |-> 0]
    /\ sla_policies \in
          { { SlaPolicy(9, OtherOrgId, "low", 60, 480) },
            { SlaPolicy(1, OrgId, "low", 60, 480),
              SlaPolicy(9, OtherOrgId, "low", 60, 480) } }
    /\ procs = [p \in Procs |-> IdleProc]
    /\ requests = 0
    /\ DeskIdle
    /\ SlaIdle
    /\ SeatIdle

NextPolicy ==
    \/ \E p \in Procs, op \in { "create_sla_policy", "update_sla_policy" } :
          \E a \in PolicyRequests(op) : Begin(p, op, a)
    \/ \E p \in Procs :
          \/ NotSuspended(p)
          \/ SlaLimitPlan(p)
          \/ SlaLimitCount(p)
          \/ SlaLimitDenied(p)
          \/ Existing(p)
          \/ Insert(p)
          \/ FindPolicy(p)
          \/ UpdatePolicy(p)
          \/ Return(p)

SpecPolicy == InitPolicy /\ [][NextPolicy]_vars

(***************************************************************************)
(* Inputs of the calendar specification.                                   *)
(***************************************************************************)
HM(h, m) == <<h, m>>
BH(tz, days, s, e) ==
    [timezone |-> tz, work_days |-> days, start_time |-> s, end_time |-> e]

MonFri == {1, 2, 3, 4, 5}

ValidHours ==
    { BH("UTC", MonFri, HM(9, 0), HM(17, 0)),
      BH("Etc/GMT-2", MonFri, HM(9, 0), HM(17, 0)),
      BH("Not/AZone", {6, 7}, HM(10, 30), HM(12, 0)),
      BH("UTC", {3}, HM(0, 0), HM(23, 59)) }

InvalidHours ==
    { BH("UTC", {}, HM(9, 0), HM(17, 0)),
      BH("UTC", MonFri, HM(17, 0), HM(9, 0)),
      BH("UTC", {1, 2, 3, 4, 5, 6, 7}, HM(9, 0), HM(9, 0)) }

IsValidHours(hours) ==
    /\ hours.work_days # {}
    /\ dt_time(hours.start_time) < dt_time(hours.end_time)

\* Start instants: every weekday of the second week, at times of day around
\* the window borders, on and off the whole minute.
At(day, h, m, s) == day * SecondsPerDay + (h * 60 + m) * SecondsPerMinute + s

StartDays == 7 .. 13
StartTimes ==
    { <<8, 0, 0>>, <<9, 0, 0>>, <<10, 0, 0>>, <<16, 30, 0>>, <<16, 30, 30>>,
      <<16, 59, 30>>, <<17, 0, 0>>, <<23, 30, 0>> }
StartInstants == { At(d, t[1], t[2], t[3]) : d \in StartDays, t \in StartTimes }
BudgetMinutes == { 0, 1, 60, 480, 600 }

\* the rest of the system at rest
GuardIdle ==
    /\ org = [plan |-> "CORE", status |-> "active"]
    /\ store = [devices |-> 0, licenses |-> 0, saved_views |-> 0,
         staff_users |-> 3, automations |-> 0]
    /\ sla_policies = {}
    /\ procs = [p \in Procs |-> IdleProc]
    /\ requests = 0
    /\ DeskIdle
    /\ SlaIdle
    /\ SeatIdle

InitCal ==
    /\ \/ \E s \in StartInstants, m \in BudgetMinutes,
             h \in {None} \cup { Some(x) : x \in ValidHours } :
             cal = CalCall(s, m, h)
       \/ \E s \in { At(7, 10, 0, 0), At(12, 16, 59, 30) }, m \in { 1, 60 },
             h \in InvalidHours :
             cal = CalCall(s, m, Some(h))
    /\ GuardIdle

(***************************************************************************)
(* calculate_business_hours_due_date, statement by statement.              *)
(***************************************************************************)
\* CalEnter whose no-configuration shortcut moves a result that falls on a
\* weekend to the same time of day of the next Monday
CalEnter_SkipsWeekend ==
    /\ cal.pc = "call"
    /\ IF IsNone(cal.hours)
       THEN LET r == cal.start + cal.minutes * SecondsPerMinute
            IN  cal' = [cal EXCEPT !.pc = "done",
                          !.result = Some(IF isoweekday(r) \in { 6, 7 }
                                          THEN r + (8 - isoweekday(r)) * SecondsPerDay
                                          ELSE r)]
       ELSE cal' = [cal EXCEPT !.pc = "loop",
                      !.current = astimezone(cal.start, Get(cal.hours).timezone),
                      !.remaining = cal.minutes]
    /\ UNCHANGED <<deskVars, seatVars, slaVars, org, store, sla_policies, procs, requests>>

\* lines 1216-1250: the no-configuration shortcut, or the conversion to the
\* business timezone
CalEnter ==
    /\ cal.pc = "call"
    /\ IF IsNone(cal.hours)
       THEN cal' = [cal EXCEPT !.pc = "done",
                      !.result = Some(cal.start + cal.minutes * SecondsPerMinute)]
       ELSE cal' = [cal EXCEPT !.pc = "loop",
                      !.current = astimezone(cal.start, Get(cal.hours).timezone),
                      !.remaining = cal.minutes]
    /\ UNCHANGED <<deskVars, seatVars, slaVars, org, store, sla_policies, procs, requests>>

\* lines 1252-1287: one pass of the while loop
CalIterate ==
    /\ cal.pc = "loop"
    /\ cal.remaining > 0
    /\ LET r == LoopBody(cal.current, cal.remaining, Get(cal.hours))
       IN  IF r.error # ""
           THEN cal' = [cal EXCEPT !.pc = "failed", !.error = r.error,
                          !.iters = cal.iters + 1]
           ELSE cal' = [cal EXCEPT !.current = r.current,
                          !.remaining = r.remaining,
                          !.iters = cal.iters + 1]
    /\ UNCHANGED <<deskVars, seatVars, slaVars, org, store, sla_policies, procs, requests>>

\* line 1290: the loop has ended, convert back to UTC
CalReturn ==
    /\ cal.pc = "loop"
    /\ cal.remaining = 0
    /\ cal' = [cal EXCEPT !.pc = "done",
                 !.result = Some(ToUTC(cal.current, Get(cal.hours).timezone))]
    /\ UNCHANGED <<deskVars, seatVars, slaVars, org, store, sla_policies, procs, requests>>

NextCal == CalEnter \/ CalIterate \/ CalReturn

SpecCal == InitCal /\ [][NextCal]_vars

(***************************************************************************)
(* Tickets and their SLA.                                                  *)
(***************************************************************************)
\* Ticket(...), lines 670-692: the document create_ticket inserts
NewTicket(ticket_number, priority, created_at) ==
    [ticket_number |-> ticket_number, status |-> "new", priority |-> priority,
     sla_policy_id |-> None, response_due_at |-> None,
     resolution_due_at |-> None, first_response_at |-> None,
     sla_breached_response |-> FALSE, sla_breached_resolution |-> FALSE,
     created_at |-> created_at, updated_at |-> created_at]

Stored == { i \in TicketIds : ~IsNone(tickets[i]) }

\* get_next_ticket_number, given the tickets of the organization
get_next_ticket_number(ts) ==
    LET ids == { i \in DOMAIN ts : ~IsNone(ts[i]) }
    IN  IF ids = {} THEN 1
        ELSE (CHOOSE n \in { Get(ts[i]).ticket_number : i \in ids } :
                \A i \in ids : Get(ts[i]).ticket_number <= n) + 1

\* apply_sla_to_ticket that looks the policy up by priority alone
apply_sla_to_ticket_AnyOrganization(doc, policies, hours) ==
    LET matching == { q \in policies : q.priority = doc.priority }
    IN  IF matching = {} THEN doc
        ELSE LET sla_policy == CHOOSE q \in matching : TRUE
                 response_due == calculate_business_hours_due_date(
                     doc.created_at, sla_policy.response_time_minutes, hours)
                 resolution_due == calculate_business_hours_due_date(
                     doc.created_at, sla_policy.resolution_time_minutes, hours)
             IN  IF IsNone(response_due) \/ IsNone(resolution_due) THEN doc
                 ELSE [doc EXCEPT !.sla_policy_id = Some(sla_policy.id),
                                  !.response_due_at = response_due,
                                  !.resolution_due_at = resolution_due]

\* apply_sla_to_ticket, given the policies and business hours it reads: the
\* $set it writes on the ticket, or the ticket unchanged without a policy
apply_sla_to_ticket(doc, policies, hours) ==
    LET matching == { q \in policies : /\ q.organization_id = OrgId
                                       /\ q.priority = doc.priority }
    IN  IF matching = {} THEN doc
        ELSE LET sla_policy == CHOOSE q \in matching : TRUE
                 response_due == calculate_business_hours_due_date(
                     doc.created_at, sla_policy.response_time_minutes, hours)
                 resolution_due == calculate_business_hours_due_date(
                     doc.created_at, sla_policy.resolution_time_minutes, hours)
             IN  IF IsNone(response_due) \/ IsNone(resolution_due) THEN doc
                 ELSE [doc EXCEPT !.sla_policy_id = Some(sla_policy.id),
                                  !.response_due_at = response_due,
                                  !.resolution_due_at = resolution_due]

\* check_sla_breach with the comparisons now >= due
check_sla_breach_AtDue(ticket, now_) ==
    [sla_breached_response |->
        /\ ~IsNone(ticket.response_due_at)
        /\ IsNone(ticket.first_response_at)
        /\ now_ >= Get(ticket.response_due_at)
        /\ ~ticket.sla_breached_response,
     sla_breached_resolution |->
        /\ ~IsNone(ticket.resolution_due_at)
        /\ ticket.status \notin { "resolved", "closed" }
        /\ now_ >= Get(ticket.resolution_due_at)
        /\ ~ticket.sla_breached_resolution]

\* check_sla_breach, lines 1334-1352: the updates dict built from the ticket
\* passed in and the clock (TRUE = the key is present, with value True)
check_sla_breach(ticket, now_) ==
    [sla_breached_response |->
        /\ ~IsNone(ticket.response_due_at)
        /\ IsNone(ticket.first_response_at)
        /\ now_ > Get(ticket.response_due_at)
        /\ ~ticket.sla_breached_response,
     sla_breached_resolution |->
        /\ ~IsNone(ticket.resolution_due_at)
        /\ ticket.status \notin { "resolved", "closed" }
        /\ now_ > Get(ticket.resolution_due_at)
        /\ ~ticket.sla_breached_resolution]

\* an update_one that writes both flags with the values just computed
SetBreachFlags_WritesBoth(doc, updates) ==
    [doc EXCEPT
        !.sla_breached_response = updates.sla_breached_response,
        !.sla_breached_resolution = updates.sla_breached_resolution]

\* db.tickets.update_one(..., {"$set": updates}) of check_sla_breach
SetBreachFlags(doc, updates) ==
    [doc EXCEPT
        !.sla_breached_response =
            IF updates.sla_breached_response THEN TRUE ELSE @,
        !.sla_breached_resolution =
            IF updates.sla_breached_resolution THEN TRUE ELSE @]

\* update_ticket that also clears the resolution flag of a ticket it resolves
update_ticket_ClearsFlag(doc, update_data, now_) ==
    [doc EXCEPT
        !.status = IF IsNone(update_data.status) THEN @ ELSE Get(update_data.status),
        !.priority = IF IsNone(update_data.priority) THEN @ ELSE Get(update_data.priority),
        !.sla_breached_resolution =
            IF update_data.status = Some("resolved") THEN FALSE ELSE @,
        !.updated_at = now_]

\* update_ticket, lines 2494-2498: the fields of TicketUpdate that are not
\* None, and updated_at
update_ticket(doc, update_data, now_) ==
    [doc EXCEPT
        !.status = IF IsNone(update_data.status) THEN @ ELSE Get(update_data.status),
        !.priority = IF IsNone(update_data.priority) THEN @ ELSE Get(update_data.priority),
        !.updated_at = now_]

\* the clock advances
Tick ==
    /\ now < ClockStart + MaxTicks * TickSeconds
    /\ now' = now + TickSeconds
    /\ checked' = None
    /\ returned' = None
    /\ UNCHANGED <<deskVars, tickets, business_hours, guardVars, seatVars>>

\* create_ticket whose SLA is computed without the stored business hours
create_ticket_IgnoresHours(id, priority) ==
    /\ IsNone(tickets[id])
    /\ \A j \in TicketIds : j < id => ~IsNone(tickets[j])
    /\ IsNone(enforce_not_suspended(org))
    /\ tickets' = [tickets EXCEPT ![id] =
          Some(apply_sla_to_ticket(
                  NewTicket(get_next_ticket_number(tickets), priority, now),
                  sla_policies, None))]
    /\ checked' = None
    /\ returned' = None
    /\ UNCHANGED <<deskVars, now, business_hours, guardVars, seatVars>>

\* POST /tickets: enforce_not_suspended, insert, apply_sla_to_ticket
create_ticket(id, priority) ==
    /\ IsNone(tickets[id])
    /\ \A j \in TicketIds : j < id => ~IsNone(tickets[j])
    /\ IsNone(enforce_not_suspended(org))
    /\ tickets' = [tickets EXCEPT ![id] =
          Some(apply_sla_to_ticket(
                  NewTicket(get_next_ticket_number(tickets), priority, now),
                  sla_policies, business_hours))]
    /\ checked' = None
    /\ returned' = None
    /\ UNCHANGED <<deskVars, now, business_hours, guardVars, seatVars>>

\* check_sla_breach(ticket) on the document just read, as on a ticket read:
\* the flags are decided on the document and written with update_one
CheckSlaBreach(id) ==
    /\ ~IsNone(tickets[id])
    /\ LET updates == check_sla_breach(Get(tickets[id]), now)
       IN  tickets' =
              IF updates.sla_breached_response \/ updates.sla_breached_resolution
              THEN [tickets EXCEPT ![id] = Some(SetBreachFlags(Get(@), updates))]
              ELSE tickets
    /\ checked' = Some(id)
    /\ returned' = None
    /\ UNCHANGED <<deskVars, now, business_hours, guardVars, seatVars>>

\* GET /tickets/{id}, lines 2458-2480: the ticket is read and returned
get_ticket(id) ==
    /\ ~IsNone(tickets[id])
    /\ checked' = None
    /\ returned' = Some(Response("get_ticket", id, Get(tickets[id])))
    /\ UNCHANGED <<deskVars, tickets, now, business_hours, guardVars, seatVars>>

TicketUpdates ==
    { [status |-> s, priority |-> p] :
        s \in { None, Some("resolved"), Some("closed") },
        p \in { None, Some("low"), Some("high") } }

\* a PATCH that applies the SLA again, from the time of the update, when the
\* priority is supplied
UpdateTicket_ReappliesSla(id, update_data) ==
    /\ ~IsNone(tickets[id])
    /\ LET u == update_ticket(Get(tickets[id]), update_data, now)
       IN  tickets' = [tickets EXCEPT ![id] =
              Some(IF IsNone(update_data.priority) THEN u
                   ELSE apply_sla_to_ticket([u EXCEPT !.created_at = now],
                                            sla_policies, business_hours))]
    /\ checked' = None
    /\ returned' = None
    /\ UNCHANGED <<deskVars, now, business_hours, guardVars, seatVars>>

\* PATCH /tickets/{id}
UpdateTicket(id, update_data) ==
    /\ ~IsNone(tickets[id])
    /\ tickets' = [tickets EXCEPT ![id] =
                      Some(update_ticket(Get(@), update_data, now))]
    /\ checked' = None
    /\ returned' = None
    /\ UNCHANGED <<deskVars, now, business_hours, guardVars, seatVars>>

\* POST /tickets/{id}/comments: the comment is stored, updated_at is set
create_ticket_comment(id, comment_type) ==
    /\ ~IsNone(tickets[id])
    /\ comment_type \in { "internal_note", "public_reply" }
    /\ tickets' = [tickets EXCEPT ![id] = Some([Get(@) EXCEPT !.updated_at = now])]
    /\ checked' = None
    /\ returned' = None
    /\ UNCHANGED <<deskVars, now, business_hours, guardVars, seatVars>>

\* no policy at all; one policy of the organization next to the policies of
\* another tenant, for a priority the organization has none for and for the
\* priority it has one for
SlaPolicySets ==
    { {},
      { SlaPolicy(1, OrgId, "high", 1, 2),
        SlaPolicy(2, OtherOrgId, "low", 1, 3),
        SlaPolicy(3, OtherOrgId, "high", 2, 3) } }

InitSla ==
    /\ cal = CalIdle
    /\ \E status \in { "active", "suspended" } :
          org = [plan |-> "PLUS", status |-> status]
    /\ store = [devices |-> 0, licenses |-> 0, saved_views |-> 0,
                staff_users |-> 3, automations |-> 0]
    /\ sla_policies \in SlaPolicySets
    /\ procs = [p \in Procs |-> IdleProc]
    /\ requests = 0
    /\ DeskIdle
    /\ tickets = [i \in TicketIds |-> None]
    /\ now = ClockStart
    /\ business_hours \in { None, Some(BH("UTC", MonFri, HM(9, 0), HM(17, 0))) }
    /\ checked = None
    /\ returned = None
    /\ SeatIdle

NextSla ==
    \/ Tick
    \/ \E id \in TicketIds, priority \in { "low", "high" } : create_ticket(id, priority)
    \/ \E id \in TicketIds : CheckSlaBreach(id)
    \/ \E id \in TicketIds, u \in TicketUpdates : UpdateTicket(id, u)
    \/ \E id \in TicketIds, ct \in { "internal_note", "public_reply" } :
          create_ticket_comment(id, ct)

SpecSla == InitSla /\ [][NextSla]_vars

\* the read path: tickets are created, time passes, tickets are read
NextRead ==
    \/ Tick
    \/ \E id \in TicketIds, priority \in { "low", "high" } : create_ticket(id, priority)
    \/ \E id \in TicketIds : get_ticket(id)

SpecRead == InitSla /\ [][NextRead]_vars

(***************************************************************************)
(* Seats: register, update_staff_user, update_organization_seats.          *)
(***************************************************************************)
\* check_seat_availability, given the organization document and the staff
\* users it reads
check_seat_availability(o, users) ==
    LET seat_count == DictGet(o, "seat_count", 3)
        current_users == Cardinality({ u \in DOMAIN users : users[u] = "active" })
    IN  [seat_count |-> seat_count,
         current_users |-> current_users,
         available_seats |-> Max2(0, seat_count - current_users),
         can_add_user |-> current_users < seat_count]

check_staff_limit(o, users) == check_seat_availability(o, users).can_add_user

StaffRoles == { "admin", "technician" }
StaffStatuses == { "active", "inactive" }

\* POST /auth/register for the organization: the email check, the seat
\* check, then the insert of a StaffUser (status "active")
register(u, email_registered) ==
    /\ staff_users[u] = "absent"
    /\ \A v \in UserIds : v < u => staff_users[v] # "absent"
    /\ IF ~email_registered /\ check_staff_limit(org, staff_users)
       THEN /\ staff_users' = [staff_users EXCEPT ![u] = "active"]
            /\ store' = [store EXCEPT !.staff_users = @ + 1]
       ELSE UNCHANGED <<staff_users, store>>
    /\ UNCHANGED <<deskVars, slaVars, cal, org, sla_policies, procs, requests>>

\* StaffUserUpdate: the fields that matter here
StaffUserUpdates == { [status |-> st] : st \in { None } \cup { Some(x) : x \in StaffStatuses } }

\* PATCH /staff-users/{user_id} by a member of the organization
update_staff_user(role, u, update_data) ==
    /\ staff_users[u] # "absent"
    /\ IF role = "admin" /\ ~IsNone(update_data.status)
       THEN staff_users' = [staff_users EXCEPT ![u] = Get(update_data.status)]
       ELSE UNCHANGED staff_users
    /\ UNCHANGED <<deskVars, slaVars, guardVars>>

\* PATCH /organization/seats
update_organization_seats(role, seat_count) ==
    /\ LET min_seats == get_plan_limits(org).min_seats
           current_users ==
               Cardinality({ u \in UserIds : staff_users[u] = "active" })
       IN  IF /\ role = "admin"
              /\ ~(seat_count < min_seats)
              /\ ~(seat_count < current_users)
           THEN org' = [org EXCEPT !.seat_count = seat_count]
           ELSE UNCHANGED org
    /\ UNCHANGED <<deskVars, seatVars, slaVars, cal, store, sla_policies, procs, requests>>

\* an organization on its default seat count with one to three staff users
InitSeats ==
    /\ cal = CalIdle
    /\ \E plan \in { "CORE", "PRIME" } :
          org = [plan |-> plan, status |-> "active", seat_count |-> 3]
    /\ \E n \in 1 .. Min2(3, MaxUsers) :
          /\ staff_users = StaffOf(n)
          /\ store = [devices |-> 0, licenses |-> 0, saved_views |-> 0,
                      staff_users |-> n, automations |-> 0]
    /\ sla_policies = {}
    /\ procs = [p \in Procs |-> IdleProc]
    /\ requests = 0
    /\ DeskIdle
    /\ SlaIdle

NextSeats ==
    \/ \E u \in UserIds, e \in BOOLEAN : register(u, e)
    \/ \E r \in StaffRoles, u \in UserIds, d \in StaffUserUpdates :
          update_staff_user(r, u, d)
    \/ \E r \in StaffRoles, n \in 0 .. MaxSeats : update_organization_seats(r, n)

SpecSeats == InitSeats /\ [][NextSeats]_vars

(***************************************************************************)
(* Business hours administration.                                          *)
(***************************************************************************)
\* BusinessHoursCreate bodies: zones, day sets (numbers outside 1..7 and
\* the empty list included) and window borders in and out of order
HoursTimes == { HM(0, 0), HM(9, 0), HM(17, 0), HM(23, 59) }
BusinessHoursCreate ==
    { BH(tz, days, st, en) :
        tz \in { "UTC", "Not/AZone" },
        days \in { MonFri, { 6, 7 }, {}, { 0, 8 } },
        st \in HoursTimes, en \in HoursTimes }

\* POST /business-hours: the role check, then the stored record is replaced
\* by the body (update_one $set of every field) or inserted from it
create_or_update_business_hours(role, hours_data) ==
    /\ IF role = "admin"
       THEN business_hours' = Some(hours_data)
       ELSE UNCHANGED business_hours
    /\ UNCHANGED <<deskVars, tickets, now, checked, returned, guardVars, seatVars>>

InitHours == cal = CalIdle /\ GuardIdle

NextHours ==
    \E role \in StaffRoles, hours_data \in BusinessHoursCreate :
        create_or_update_business_hours(role, hours_data)

SpecHours == InitHours /\ [][NextHours]_vars

(***************************************************************************)
(* Time-tracking sessions of one agent in the organization.  The instants  *)
(* are stored as ISO strings with their offset and parsed back to the same *)
(* instant, so a stored time is the instant itself.                        *)
(***************************************************************************)
SessionIds == 1 .. MaxSessions

\* Session(...), lines 752-763
Session(id, ticket_id, start_time, end_time, duration_minutes) ==
    [id |-> id, ticket_id |-> ticket_id, start_time |-> start_time,
     end_time |-> end_time, duration_minutes |-> duration_minutes]

\* calculate_duration: whole minutes, never negative
calculate_duration(start_time, end_time) ==
    Max2(0, (end_time - start_time) \div SecondsPerMinute)

\* check_session_overlap, given the sessions of the agent that the query
\* returns; end_time is None for a session being started
check_session_overlap(existing_sessions, start_time, end_time) ==
    \E session \in existing_sessions :
        IF IsNone(session.end_time)
        THEN start_time >= session.start_time
        ELSE IF ~IsNone(end_time)
             THEN /\ start_time < Get(session.end_time)
                  /\ Get(end_time) > session.start_time
             ELSE start_time < Get(session.end_time)

\* db.tickets.find_one({"id": ticket_id, "organization_id": org_id})
TicketFound(ticket_id) ==
    ticket_id \in TicketIds /\ ~IsNone(tickets[ticket_id])

\* POST /sessions/start: 404 without the ticket, 400 with an active session
\* or an overlap, else a session that starts now is inserted
start_session(ticket_id) ==
    /\ Cardinality(sessions) < MaxSessions
    /\ sessions' =
          IF ~TicketFound(ticket_id) THEN sessions
          ELSE IF \E a \in sessions : IsNone(a.end_time) THEN sessions
          ELSE IF check_session_overlap(sessions, now, None) THEN sessions
          ELSE sessions \cup
                 { Session(Cardinality(sessions) + 1, ticket_id, now, None, None) }
    /\ UNCHANGED <<org_tickets, slaVars, guardVars, seatVars>>

\* POST /sessions/stop: 404 for an unknown session, 400 for a stopped one,
\* else end_time and duration_minutes are set
stop_session(session_id) ==
    /\ sessions' =
          IF ~\E x \in sessions : x.id = session_id THEN sessions
          ELSE LET session == CHOOSE x \in sessions : x.id = session_id
               IN  IF ~IsNone(session.end_time) THEN sessions
                   ELSE (sessions \ { session }) \cup
                        { [session EXCEPT
                             !.end_time = Some(now),
                             !.duration_minutes =
                                Some(calculate_duration(session.start_time, now))] }
    /\ UNCHANGED <<org_tickets, slaVars, guardVars, seatVars>>

\* POST /sessions/manual: 404 without the ticket, 400 when the end is not
\* after the start or on an overlap, else the completed session is inserted
create_manual_session(ticket_id, start_time, end_time) ==
    /\ Cardinality(sessions) < MaxSessions
    /\ sessions' =
          IF ~TicketFound(ticket_id) THEN sessions
          ELSE IF end_time <= start_time THEN sessions
          ELSE IF check_session_overlap(sessions, start_time, Some(end_time))
               THEN sessions
          ELSE sessions \cup
                 { Session(Cardinality(sessions) + 1, ticket_id, start_time,
                           Some(end_time),
                           Some(calculate_duration(start_time, end_time))) }
    /\ UNCHANGED <<org_tickets, slaVars, guardVars, seatVars>>

\* the instants an agent reports for a manual session: on the clock's grid
SessionTimes == { ClockStart + k * TickSeconds : k \in 0 .. MaxTicks }

\* the organization with one ticket, its agent without a session
InitSessions ==
    /\ cal = CalIdle
    /\ org = [plan |-> "CORE", status |-> "active"]
    /\ store = [devices |-> 0, licenses |-> 0, saved_views |-> 0,
                staff_users |-> 3, automations |-> 0]
    /\ sla_policies = {}
    /\ procs = [p \in Procs |-> IdleProc]
    /\ requests = 0
    /\ DeskIdle
    /\ tickets = [i \in TicketIds |->
                    IF i = 1 THEN Some(NewTicket(1, "low", ClockStart)) ELSE None]
    /\ now = ClockStart
    /\ business_hours = None
    /\ checked = None
    /\ returned = None
    /\ SeatIdle

NextSessions ==
    \/ Tick
    \/ \E ticket_id \in { 0 } \cup TicketIds : start_session(ticket_id)
    \/ \E session_id \in SessionIds : stop_session(session_id)
    \/ \E ticket_id \in { 0 } \cup TicketIds, a, b \in SessionTimes :
          create_manual_session(ticket_id, a, b)

SpecSessions == InitSessions /\ [][NextSessions]_vars

(***************************************************************************)
(* Ticket numbering: POST /tickets step by step, for two organizations.    *)
(* Of each ticket the id, the owner and the number are kept; the steps     *)
(* after the insert write SLA fields and audit entries only.               *)
(***************************************************************************)
\* get_next_ticket_number(org_id), given db.tickets
next_ticket_number(org_id, docs) ==
    LET numbers == { d.ticket_number : d \in { x \in docs : x.organization_id = org_id } }
    IN  IF numbers = {} THEN 1
        ELSE (CHOOSE n \in numbers : \A m \in numbers : m <= n) + 1

\* enforce_not_suspended(org_id), line 2380; the other organization is active
TicketNotSuspended(p) ==
    LET pr == procs[p]
        e == IF pr.args.organization_id = OrgId
             THEN enforce_not_suspended(org) ELSE None
    IN  /\ Label(pr) = "ticket_not_suspended"
        /\ procs' = [procs EXCEPT ![p] =
              IF ~IsNone(e) THEN Raise(pr, Get(e)) ELSE Advance(pr)]
        /\ UNCHANGED <<deskVars, seatVars, slaVars, cal, org, store, sla_policies, requests>>

\* ticket_number = await get_next_ticket_number(org_id), line 2383
NextTicketNumber(p) ==
    LET pr == procs[p]
    IN  /\ Label(pr) = "next_ticket_number"
        /\ procs' = [procs EXCEPT ![p] =
              Advance([pr EXCEPT !.result =
                 Some(next_ticket_number(pr.args.organization_id, org_tickets))])]
        /\ UNCHANGED <<deskVars, seatVars, slaVars, cal, org, store, sla_policies, requests>>

\* await db.tickets.insert_one(doc), line 2402
InsertTicket(p) ==
    LET pr == procs[p]
    IN  /\ Label(pr) = "insert_ticket"
        /\ org_tickets' = org_tickets \cup
              { [id |-> Cardinality(org_tickets) + 1,
                 organization_id |-> pr.args.organization_id,
                 ticket_number |-> Get(pr.result)] }
        /\ procs' = [procs EXCEPT ![p] = Advance([pr EXCEPT !.inserted = TRUE])]
        /\ UNCHANGED <<sessions, seatVars, slaVars, cal, org, store, sla_policies, requests>>

\* log_audit, apply_sla_to_ticket and the read of the updated ticket, lines
\* 2403-2409: the number stays as inserted
ApplySla(p) ==
    LET pr == procs[p]
    IN  /\ Label(pr) = "apply_sla"
        /\ procs' = [procs EXCEPT ![p] = Advance(pr)]
        /\ UNCHANGED <<deskVars, seatVars, slaVars, cal, org, store, sla_policies, requests>>

TicketRequests ==
    { [NoArgs EXCEPT !.organization_id = o] : o \in { OrgId, OtherOrgId } }

\* two organizations without tickets; the first one active or suspended
InitTickets ==
    /\ cal = CalIdle
    /\ \E status \in { "active", "suspended" } :
          org = [plan |-> "CORE", status |-> status]
    /\ store = [devices |-> 0, licenses |-> 0, saved_views |-> 0,
                staff_users |-> 3, automations |-> 0]
    /\ sla_policies = {}
    /\ procs = [p \in Procs |-> IdleProc]
    /\ requests = 0
    /\ DeskIdle
    /\ SlaIdle
    /\ SeatIdle

NextTickets ==
    \/ \E p \in Procs : \E a \in TicketRequests : Begin(p, "create_ticket", a)
    \/ \E p \in Procs :
          \/ TicketNotSuspended(p)
          \/ NextTicketNumber(p)
          \/ InsertTicket(p)
          \/ ApplySla(p)
          \/ Return(p)

SpecTickets == InitTickets /\ [][NextTickets]_vars

(***************************************************************************)
(* Business time, counted independently of the loop: the seconds of        *)
(* [a, b) that lie inside the daily window of a working day.               *)
(***************************************************************************)
WindowSecondsOnDay(d, a, b, hours) ==
    IF ((d % 7) + 1) \in hours.work_days
    THEN LET lo == Max2(a, d * SecondsPerDay + dt_time(hours.start_time))
             hi == Min2(b, d * SecondsPerDay + dt_time(hours.end_time))
         IN  IF hi > lo THEN hi - lo ELSE 0
    ELSE 0

RECURSIVE BusinessSeconds(_, _, _, _)
BusinessSeconds(d, a, b, hours) ==
    IF d > DayOf(b) THEN 0
    ELSE WindowSecondsOnDay(d, a, b, hours) + BusinessSeconds(d + 1, a, b, hours)

CalValidCallDone ==
    /\ cal.pc = "done"
    /\ ~IsNone(cal.hours)
    /\ IsValidHours(Get(cal.hours))
    /\ cal.minutes >= 1

CalLocalStart == astimezone(cal.start, Get(cal.hours).timezone)
CalLocalResult == astimezone(Get(cal.result), Get(cal.hours).timezone)

\* C1: for valid hours and m >= 1 the returned instant is the one at which
\* exactly m minutes of business time have elapsed since the start instant.
C1_ExactBusinessTime ==
    CalValidCallDone =>
        /\ CalLocalResult >= CalLocalStart
        /\ BusinessSeconds(DayOf(CalLocalStart), CalLocalStart, CalLocalResult,
                           Get(cal.hours)) = cal.minutes * SecondsPerMinute

\* C2: for valid hours and m >= 1 the returned instant, in the configured
\* timezone, is on a working day and within [start_time, end_time] inclusive.
C2_LandsInWindow ==
    CalValidCallDone =>
        /\ isoweekday(CalLocalResult) \in Get(cal.hours).work_days
        /\ TimeOfDay(CalLocalResult) >= dt_time(Get(cal.hours).start_time)
        /\ TimeOfDay(CalLocalResult) <= dt_time(Get(cal.hours).end_time)

\* C7: with no usable working window and m >= 1 the search is bounded by the
\* horizon and ends in a ConfigurationError, never in a result or another
\* error.
C7_BoundedSearchConfigurationError ==
    (/\ ~IsNone(cal.hours)
     /\ ~IsValidHours(Get(cal.hours))
     /\ cal.minutes >= 1) =>
        /\ cal.iters <= SearchHorizon
        /\ cal.pc # "done"
        /\ (cal.pc = "failed" => cal.error = "ConfigurationError")

(***************************************************************************)
(* Plan entitlement claims.                                                *)
(***************************************************************************)
\* the limit the organization's tier sets for a resource (none = unlimited)
TierLimit(res) ==
    LET tier == IF org.plan \in PlanNames THEN org.plan ELSE "CORE"
    IN  IF res \in Resources THEN PLAN_FEATURES[tier].limits[res] ELSE None
TierName == IF org.plan \in PlanNames THEN org.plan ELSE "CORE"

Denies(res, count) == ~IsNone(TierLimit(res)) /\ ~(count < Get(TierLimit(res)))

StoredCount(res) == IF res \in DOMAIN store THEN store[res] ELSE 0

\* the step in which request p gets the result of check_resource_limit
LimitChecked(p) == IsNone(procs[p].result) /\ ~IsNone(procs'[p].result)

\* C5: the resource-limit check allows adding iff the tier's limit is none
\* or current_count < limit (strict), and the record returned carries the
\* limit and the count that were used.
C5_ResourceLimitCheck ==
    [][\A p \in Procs : LimitChecked(p) =>
          LET r == Get(procs'[p].result)
              res == ResourceOf(procs[p])
          IN  /\ r.current = StoredCount(res)
              /\ r.limit = TierLimit(res)
              /\ r.can_add = (IsNone(TierLimit(res))
                              \/ StoredCount(res) < Get(TierLimit(res)))]_vars

\* a check at current_count = limit has denied
C5_Witness ==
    \E p \in Procs :
        /\ ~IsNone(procs[p].result)
        /\ ~IsNone(Get(procs[p].result).limit)
        /\ Get(procs[p].result).current = Get(Get(procs[p].result).limit)
        /\ ~Get(procs[p].result).can_add

HasError(pr, kind) == ~IsNone(pr.error) /\ Get(pr.error).error = kind

\* C6: for a suspended organization every creation that checks a plan limit
\* or feature fails with OrganizationSuspended, never with a plan-limit or
\* feature error, and creates nothing.
C6_SuspensionFirst ==
    org.status = "suspended" =>
        \A p \in Procs :
            /\ ~procs[p].inserted
            /\ procs[p].pc # "done"
            /\ procs[p].pc = "failed" =>
                   HasError(procs[p], "organization_suspended")

\* the first tier, in the order CORE, PLUS, PRIME, whose catalog value for
\* the feature is not false
FirstTierNotFalse(feature) ==
    CHOOSE t \in PlanNames :
        /\ PLAN_FEATURES[t].features[feature] # "False"
        /\ \A u \in PlanNames :
              PLAN_FEATURES[u].features[feature] # "False" =>
                  PLAN_FEATURES[t].price_per_seat <= PLAN_FEATURES[u].price_per_seat

\* C8: a FeatureNotAvailable error carries the feature, the current tier and
\* the first tier (CORE, PLUS, PRIME) whose catalog value is not false.
C8_MinimumRequiredTier ==
    \A p \in Procs :
        HasError(procs[p], "feature_not_available") =>
            /\ Get(procs[p].error).feature = FeatureOf(procs[p])
            /\ Get(procs[p].error).plan = TierName
            /\ Get(procs[p].error).required_plan =
                   FirstTierNotFalse(FeatureOf(procs[p]))

\* C9: concurrent creations never take the stored count of a resource above
\* the plan limit.
C9_NoJointOvershoot ==
    [][\A res \in DOMAIN store :
          (~IsNone(TierLimit(res)) /\ store[res] <= Get(TierLimit(res)))
              => store'[res] <= Get(TierLimit(res))]_vars

\* C10: enforce_resource_limit fails with PlanLimitExceeded carrying the
\* resource, the tier's limit and the tier name exactly when the check
\* denies; a request that failed so has inserted nothing.
C10_PlanLimitExceeded ==
    [][\A p \in Procs :
          /\ LimitChecked(p) =>
                LET res == ResourceOf(procs[p])
                IN  IF Denies(res, StoredCount(res))
                    THEN /\ procs'[p].pc = "failed"
                         /\ procs'[p].error =
                               Some(PlanLimitError(res, TierLimit(res), TierName))
                         /\ store' = store
                    ELSE ~HasError(procs'[p], "plan_limit_exceeded")
          /\ HasError(procs'[p], "plan_limit_exceeded") =>
                /\ ~procs'[p].inserted
                /\ (procs'[p] # procs[p] => store' = store)]_vars

\* create_device of a CORE organization with 25 stored devices has failed
C10_Witness ==
    \E p \in Procs :
        /\ procs[p].op = "create_device"
        /\ procs[p].pc = "failed"
        /\ procs[p].error = Some(PlanLimitError("devices", Some(25), "CORE"))
        /\ store.devices = 25
        /\ org.plan = "CORE"

(***************************************************************************)
(* Breach flag claims.                                                     *)
(***************************************************************************)
\* C3: once a breach flag of a ticket is true it is true in every later
\* state; no operation writes false to it.
C3_BreachFlagsMonotonic ==
    [][\A id \in TicketIds : ~IsNone(tickets[id]) =>
          /\ ~IsNone(tickets'[id])
          /\ Get(tickets[id]).sla_breached_response
                => Get(tickets'[id]).sla_breached_response
          /\ Get(tickets[id]).sla_breached_resolution
                => Get(tickets'[id]).sla_breached_resolution]_vars

\* a ticket recorded as breached on resolution was resolved afterwards
C3_Witness ==
    \E id \in Stored :
        /\ Get(tickets[id]).sla_breached_resolution
        /\ Get(tickets[id]).status = "resolved"

ResponseOverdue(t, at) ==
    /\ ~IsNone(t.response_due_at)
    /\ IsNone(t.first_response_at)
    /\ at > Get(t.response_due_at)

ResolutionOverdue(t, at) ==
    /\ ~IsNone(t.resolution_due_at)
    /\ t.status # "resolved" /\ t.status # "closed"
    /\ at > Get(t.resolution_due_at)

\* C4: an evaluation at time now newly sets the response flag iff the
\* response is overdue (due date set, no first response, now > due,
\* strictly) and the resolution flag iff the resolution is overdue (due date
\* set, status neither resolved nor closed, now > due); nothing else sets a
\* flag.
C4_BreachEvaluation ==
    [][\A id \in Stored :
          LET t == Get(tickets[id])
              u == Get(tickets'[id])
          IN  IF checked' = Some(id)
              THEN /\ u.sla_breached_response =
                         (t.sla_breached_response \/ ResponseOverdue(t, now))
                   /\ u.sla_breached_resolution =
                         (t.sla_breached_resolution \/ ResolutionOverdue(t, now))
              ELSE /\ u.sla_breached_response = t.sla_breached_response
                   /\ u.sla_breached_resolution = t.sla_breached_resolution]_vars

\* an evaluation exactly at the resolution due time has flagged the response
\* and not the resolution
C4_Witness ==
    \E id \in Stored :
        /\ checked = Some(id)
        /\ Get(tickets[id]).sla_breached_response
        /\ Get(tickets[id]).resolution_due_at = Some(now)
        /\ Get(tickets[id]).status = "new"
        /\ ~Get(tickets[id]).sla_breached_resolution

(***************************************************************************)
(* The calendar without a configuration and with an empty budget.          *)
(***************************************************************************)
\* C13: without business hours the result is exactly start + minutes, for
\* every start instant and every budget >= 0, on any weekday and at any time
\* of day.
C13_NoHoursExactSum ==
    (cal.pc \in { "loop", "done", "failed" } /\ cal.minutes >= 0) =>
        (IsNone(cal.hours) =>
            /\ cal.pc = "done"
            /\ cal.result = Some(cal.start + cal.minutes * SecondsPerMinute))

\* a call without business hours that started on a Saturday night and has
\* returned an instant of the same night
C13_Witness ==
    /\ cal.pc = "done"
    /\ IsNone(cal.hours)
    /\ cal.minutes = 60
    /\ isoweekday(cal.start) = 6
    /\ TimeOfDay(cal.start) = dt_time(HM(23, 30))
    /\ cal.result = Some(cal.start + 3600)

\* C14: for valid hours a budget of 0 returns the start instant itself, also
\* outside the window and on a non-working day.
C14_ZeroBudgetIdentity ==
    (/\ cal.pc = "done"
     /\ ~IsNone(cal.hours)
     /\ cal.minutes = 0) =>
        (IsValidHours(Get(cal.hours)) => cal.result = Some(cal.start))

\* a returned call with budget 0 whose start is, in a zone east of UTC, on a
\* non-working day after the end of the window
C14_Witness ==
    /\ cal.pc = "done"
    /\ ~IsNone(cal.hours)
    /\ IsValidHours(Get(cal.hours))
    /\ UtcOffsetMinutes(Get(cal.hours).timezone) # 0
    /\ cal.minutes = 0
    /\ isoweekday(CalLocalStart) \notin Get(cal.hours).work_days
    /\ TimeOfDay(CalLocalStart) >= dt_time(Get(cal.hours).end_time)
    /\ cal.result = Some(cal.start)

(***************************************************************************)
(* The SLA a ticket gets when it is created.                               *)
(***************************************************************************)
\* the step is a create_ticket that stored ticket i
TicketCreated(i) == IsNone(tickets[i]) /\ ~IsNone(tickets'[i])

\* the policies of the organization for a priority
PoliciesFor(priority) ==
    { q \in sla_policies : q.organization_id = OrgId /\ q.priority = priority }

\* C11: without a policy of the organization for the ticket's priority,
\* create_ticket stores the ticket with sla_policy_id, response_due_at and
\* resolution_due_at unset and both breach flags false.
C11_NoPolicyNoSla ==
    [][\A i \in TicketIds :
          (TicketCreated(i) /\ PoliciesFor(Get(tickets'[i]).priority) = {}) =>
              LET t == Get(tickets'[i])
              IN  /\ IsNone(t.sla_policy_id)
                  /\ IsNone(t.response_due_at)
                  /\ IsNone(t.resolution_due_at)
                  /\ ~t.sla_breached_response
                  /\ ~t.sla_breached_resolution]_vars

\* a ticket without SLA of a priority for which only another tenant has a
\* policy
C11_Witness ==
    \E i \in TicketIds :
        /\ ~IsNone(tickets[i])
        /\ Get(tickets[i]).priority = "low"
        /\ Get(tickets[i]).updated_at = Get(tickets[i]).created_at
        /\ PoliciesFor("low") = {}
        /\ \E q \in sla_policies : q.priority = "low"
        /\ IsNone(Get(tickets[i]).sla_policy_id)
        /\ IsNone(Get(tickets[i]).response_due_at)
        /\ IsNone(Get(tickets[i]).resolution_due_at)

\* C12: with a policy P of the organization for the ticket's priority,
\* create_ticket stores sla_policy_id = P.id and both due instants, each the
\* calendar's result for created_at, P's duration and the stored business
\* hours; P is a policy of this organization and of this priority.
C12_PolicyApplied ==
    [][\A i \in TicketIds :
          TicketCreated(i) =>
              LET t == Get(tickets'[i])
              IN  \A P \in PoliciesFor(t.priority) :
                     /\ t.created_at = now
                     /\ t.sla_policy_id = Some(P.id)
                     /\ t.response_due_at =
                            calculate_business_hours_due_date(
                                t.created_at, P.response_time_minutes,
                                business_hours)
                     /\ t.resolution_due_at =
                            calculate_business_hours_due_date(
                                t.created_at, P.resolution_time_minutes,
                                business_hours)
                     /\ ~IsNone(t.response_due_at)
                     /\ ~IsNone(t.resolution_due_at)]_vars

\* a ticket created on Friday at 16:59 under business hours, next to another
\* tenant's policy for the same priority: the response is due at the end of
\* that day, the resolution on the next working day
C12_Witness ==
    \E i \in TicketIds :
        /\ ~IsNone(tickets[i])
        /\ ~IsNone(business_hours)
        /\ \E q \in sla_policies :
              q.organization_id = OtherOrgId /\ q.priority = "high"
        /\ LET t == Get(tickets[i])
           IN  /\ t.priority = "high"
               /\ t.created_at = ClockStart
               /\ t.sla_policy_id = Some(1)
               /\ t.response_due_at = Some(ClockStart + SecondsPerMinute)
               /\ ~IsNone(t.resolution_due_at)
               /\ isoweekday(Get(t.resolution_due_at)) = 1

(***************************************************************************)
(* Evaluating a ticket for breach twice.                                   *)
(***************************************************************************)
\* the updates dict of check_sla_breach is empty
NoUpdates(updates) ==
    ~updates.sla_breached_response /\ ~updates.sla_breached_resolution

\* C15: after an evaluation of a ticket at time now, a second evaluation at
\* the same now changes nothing: on the stored ticket it finds nothing to
\* write, on the document the first evaluation was given it writes the same
\* values again, and no flag that was true is false afterwards.
C15_BreachCheckIdempotent ==
    [][\A id \in Stored :
          checked' = Some(id) =>
              LET t == Get(tickets[id])
                  u == Get(tickets'[id])
              IN  /\ now' = now
                  /\ NoUpdates(check_sla_breach(u, now'))
                  /\ SetBreachFlags(u, check_sla_breach(u, now')) = u
                  /\ SetBreachFlags(u, check_sla_breach(t, now')) = u
                  /\ t.sla_breached_response => u.sla_breached_response
                  /\ t.sla_breached_resolution => u.sla_breached_resolution
                  /\ NoUpdates(check_sla_breach(t, now)) => u = t]_vars

\* a ticket with both flags set and still overdue has been evaluated: the
\* evaluation had nothing to write
C15_Witness ==
    \E id \in Stored :
        /\ checked = Some(id)
        /\ Get(tickets[id]).sla_breached_response
        /\ Get(tickets[id]).sla_breached_resolution
        /\ ResponseOverdue(Get(tickets[id]), now)
        /\ ResolutionOverdue(Get(tickets[id]), now)
        /\ NoUpdates(check_sla_breach(Get(tickets[id]), now))

(***************************************************************************)
(* Feature access by catalog value.                                        *)
(***************************************************************************)
AcceptedLevels ==
    { "basic", "advanced", "unlimited", "limited", "read_only", "full" }

\* the catalog value the organization's tier has for a feature
TierValue(feature) == PLAN_FEATURES[TierName].features[feature]

\* a finished enforce_feature_access call of the catalog's features
FeatureAccessDecided(pr) ==
    /\ pr.op = "enforce_feature_access"
    /\ pr.pc \in { "done", "failed" }

\* C16: can_use_feature is true iff the tier's catalog value is true or one
\* of basic, advanced, unlimited, limited, read_only, full, false iff the
\* value is false, and so for every tier and feature of the catalog equal to
\* 'the value is not false'; a call on the organization's plan is let
\* through exactly in that case.
C16_CanUseFeature ==
    /\ \A t \in PlanNames, f \in Features :
          LET v == PLAN_FEATURES[t].features[f]
              granted == can_use_feature(PLAN_FEATURES[t], f)
          IN  /\ granted <=> (v = "True" \/ v \in AcceptedLevels)
              /\ ~granted <=> v = "False"
              /\ granted <=> v # "False"
    /\ \A p \in Procs :
          FeatureAccessDecided(procs[p]) =>
              LET v == TierValue(procs[p].args.feature)
              IN  /\ procs[p].pc = "done" <=> v # "False"
                  /\ procs[p].pc = "failed" <=>
                         HasError(procs[p], "feature_not_available")
                  /\ procs[p].pc = "done" <=>
                         (v = "True" \/ v \in AcceptedLevels)

\* a call for a feature whose level on the organization's tier is a
\* restricted one (limited, read_only) has been let through
C16_Witness ==
    \E p \in Procs :
        /\ FeatureAccessDecided(procs[p])
        /\ procs[p].pc = "done"
        /\ TierValue(procs[p].args.feature) \in { "limited", "read_only" }

(***************************************************************************)
(* Seats.                                                                  *)
(***************************************************************************)
ActiveStaff == { u \in UserIds : staff_users[u] = "active" }

\* C17: after any sequence of register, update_staff_user and
\* update_organization_seats operations the number of active staff users of
\* the organization is at most its seat_count.
C17_ActiveWithinSeats ==
    Cardinality(ActiveStaff) <= DictGet(org, "seat_count", 3)

(***************************************************************************)
(* Stored SLA policies.                                                    *)
(***************************************************************************)
\* C18: after any create_sla_policy and update_sla_policy operations every
\* organization has at most one SLA policy per priority.
C18_OnePolicyPerPriority ==
    \A q1 \in sla_policies, q2 \in sla_policies :
        (q1.organization_id = q2.organization_id /\ q1.priority = q2.priority)
            => q1 = q2

\* C19: every stored SLA policy has a priority of low, medium, high, urgent,
\* response_time_minutes >= 1 and resolution_time_minutes >=
\* response_time_minutes.
C19_StoredPolicyValid ==
    \A q \in sla_policies :
        /\ q.priority \in Priorities
        /\ q.response_time_minutes >= 1
        /\ q.resolution_time_minutes >= q.response_time_minutes

(***************************************************************************)
(* Stored business hours.                                                  *)
(***************************************************************************)
\* C20: every BusinessHours record stored by create_or_update_business_hours
\* has start_time < end_time and work_days within 1..7.
C20_StoredHoursValid ==
    ~IsNone(business_hours) =>
        /\ dt_time(Get(business_hours).start_time)
              < dt_time(Get(business_hours).end_time)
        /\ Get(business_hours).work_days \subseteq 1 .. 7

(***************************************************************************)
(* Lookups outside the catalog.                                            *)
(***************************************************************************)
\* a finished call of proc p (a check or a handler)
Decided(pr) == pr.pc \in { "done", "failed" }

\* C21: with a tier id that is not in the catalog no lookup raises an error
\* and each one answers with CORE's values: the limits, features, max_slas
\* and min_seats of get_plan_limits, the result of check_resource_limit, of
\* can_use_feature and of check_sla_limit.
C21_UnknownTierIsCore ==
    org.plan \notin PlanNames =>
        /\ get_plan_limits(org).limits = Plan_CORE.limits
        /\ get_plan_limits(org).features = Plan_CORE.features
        /\ get_plan_limits(org).max_slas = Plan_CORE.max_slas
        /\ get_plan_limits(org).min_seats = Plan_CORE.min_seats
        /\ \A f \in Features :
              can_use_feature(get_plan_limits(org), f)
                  = can_use_feature(Plan_CORE, f)
        /\ \A n \in 0 .. 2 :
              check_sla_limit(get_plan_limits(org), n) = check_sla_limit(Plan_CORE, n)
        /\ \A p \in Procs :
              Decided(procs[p]) =>
                 /\ procs[p].op = "enforce_resource_limit" =>
                       /\ Get(procs[p].result) =
                              check_resource_limit(Plan_CORE, ResourceOf(procs[p]),
                                  get_current_resource_count(store, ResourceOf(procs[p])))
                       /\ procs[p].pc = "failed" <=>
                              HasError(procs[p], "plan_limit_exceeded")
                       /\ procs[p].pc = "failed" <=>
                              ~Get(procs[p].result).can_add
                 /\ procs[p].op = "enforce_feature_access" =>
                       /\ procs[p].pc = "done" <=>
                              can_use_feature(Plan_CORE, procs[p].args.feature)
                       /\ procs[p].pc = "failed" <=>
                              HasError(procs[p], "feature_not_available")

\* with the unknown tier id SCALE a check of licenses (CORE: 0) was denied
\* with CORE's limit
C21_Witness ==
    \E p \in Procs :
        /\ org.plan = "SCALE"
        /\ procs[p].op = "enforce_resource_limit"
        /\ procs[p].args.resource = "licenses"
        /\ HasError(procs[p], "plan_limit_exceeded")
        /\ Get(procs[p].error).limit = Some(0)
        /\ Get(procs[p].error).plan = "CORE"

\* C22: a feature name or resource name the tier's tables do not contain
\* is answered with a denial: can_use_feature is false for it, and the
\* resource-limit check does not report it as unlimited nor let it through.
C22_UnknownNameDenies ==
    /\ \A t \in PlanNames : ~can_use_feature(PLAN_FEATURES[t], "no_such_feature")
    /\ \A p \in Procs :
          (/\ procs[p].op = "enforce_resource_limit"
           /\ procs[p].args.resource \notin Resources
           /\ Decided(procs[p])) =>
              /\ ~Get(procs[p].result).unlimited
              /\ ~Get(procs[p].result).can_add
              /\ procs[p].pc = "failed"

(***************************************************************************)
(* What an update of a ticket leaves alone.                                *)
(***************************************************************************)
\* the SLA fields of a ticket
SlaFields(t) ==
    << t.sla_policy_id, t.response_due_at, t.resolution_due_at,
       t.first_response_at, t.sla_breached_response, t.sla_breached_resolution >>

C24_BreachRecordedOnRead ==
    \A id \in Stored :
        (~IsNone(returned) /\ Get(returned).op = "get_ticket"
                           /\ Get(returned).id = id) =>
            LET t == Get(tickets[id])
            IN  /\ ResponseOverdue(t, now) => t.sla_breached_response
                /\ ResolutionOverdue(t, now) => t.sla_breached_resolution

(***************************************************************************)
(* The public plans listing.                                               *)
(***************************************************************************)
PlansListed == ~IsNone(returned) /\ Get(returned).op = "get_available_plans"

\* C25: the plans listing has exactly three plans, whose name fields are
\* CORE, PLUS and PRIME, each with a price field: 25, 55 and 90.
C25_PlansListing ==
    PlansListed =>
        LET plans == Get(returned).body
        IN  /\ Len(plans) = 3
            /\ { plans[i].name : i \in DOMAIN plans } = { "CORE", "PLUS", "PRIME" }
            /\ \A i \in DOMAIN plans :
                  DictGet(plans[i], "price", None) =
                      CASE plans[i].name = "CORE" -> Some(25)
                        [] plans[i].name = "PLUS" -> Some(55)
                        [] OTHER -> Some(90)

(***************************************************************************)
(* The first response.                                                     *)
(***************************************************************************)
\* C26: the first public reply of a staff member on a ticket sets the
\* ticket's first_response_at to the time of the reply, and a later comment
\* leaves it as it is.
C26_FirstResponseRecorded ==
    [][\A id \in Stored :
          LET t == Get(tickets[id])
              u == Get(tickets'[id])
          IN  /\ create_ticket_comment(id, "public_reply") =>
                    u.first_response_at =
                        IF IsNone(t.first_response_at) THEN Some(now)
                        ELSE t.first_response_at
              /\ create_ticket_comment(id, "internal_note") =>
                    u.first_response_at = t.first_response_at]_vars


\* the time a session occupies: [start_time, end_time), unbounded when active
Intersect(s1, s2) ==
    /\ IsNone(s2.end_time) \/ s1.start_time < Get(s2.end_time)
    /\ IsNone(s1.end_time) \/ s2.start_time < Get(s1.end_time)

\* C27: no two sessions of the agent overlap in time, and at most one of
\* them is active
C27_NoOverlap ==
    /\ \A s1, s2 \in sessions : s1.id # s2.id => ~Intersect(s1, s2)
    /\ Cardinality({ x \in sessions : IsNone(x.end_time) }) <= 1

\* the policies the seed script inserts for its demo organization (plan
\* PLUS): one per priority
seed_sla_policies ==
    { SlaPolicy(1, OrgId, "low", 480, 2880),
      SlaPolicy(2, OrgId, "medium", 240, 1440),
      SlaPolicy(3, OrgId, "high", 120, 480),
      SlaPolicy(4, OrgId, "urgent", 30, 240) }

WithinMaxSlas(plan_id, policies) ==
    LET max_slas == PlanGet(plan_id).max_slas
    IN  IsNone(max_slas) \/
        Cardinality({ q \in policies : q.organization_id = OrgId })
            <= Get(max_slas)

\* C28: the organization never holds more SLA policies than its plan's
\* max_slas
C28_WithinMaxSlas == WithinMaxSlas(org.plan, sla_policies)

\* C28, the seed: the demo organization (PLUS) is seeded within its limit
C28_SeedWithinMaxSlas == WithinMaxSlas("PLUS", seed_sla_policies)


\* C29: no two tickets of one organization share a ticket_number
C29_UniqueTicketNumbers ==
    \A t1, t2 \in org_tickets :
        (t1.organization_id = t2.organization_id
            /\ t1.ticket_number = t2.ticket_number) => t1 = t2

C30_TicketDueOrder ==
    \A i \in Stored :
        LET t == Get(tickets[i])
        IN  (/\ ~IsNone(t.sla_policy_id)
             /\ \A P \in sla_policies :
                   P.id = Get(t.sla_policy_id) =>
                      P.response_time_minutes <= P.resolution_time_minutes) =>
                /\ t.created_at <= Get(t.response_due_at)
                /\ Get(t.response_due_at) <= Get(t.resolution_due_at)

====
